---- MODULE Spec2Model ----
(***************************************************************************)
(* Model of src/main.py: the signal/decision pipeline (strategy and the    *)
(* calculate_* helpers) and the ranking and execution loop of              *)
(* Trading_Bot.run under the supervisor loop of __main__.                   *)
(*                                                                         *)
(* Fixed-point units (the source computes in binary floating point):       *)
(*   prices from the ticker and close ........ whole USD                   *)
(*   short_MA, long_MA, stdV, atr, sell_price  1/1000 USD                   *)
(*   std_volavolatility_ratio ................ 1/10000                      *)
(*   objective_volatility_ratio, coefficient . 1/100                        *)
(*   sellpoint / threshold ................... 1/10000                      *)
(*   amounts and balances of a coin .......... 1/100 coin                   *)
(*   Max_position, balance_USD, spending ..... 1/100 USD                    *)
(*   USD balances, total capital ............. whole USD                    *)
(***************************************************************************)
EXTENDS Integers, Sequences, FiniteSets, TLC

\* Size of coin_list (20 in the source); coins are named by their index.
NumCoins == 3

Coins == 1..NumCoins

\* Python's None where an int or float is expected (a precision, a price).
None == -1

\* A float NaN: what pandas yields for a rolling window that is not yet full.
NaN == -999999

\* run(safety = 1000, safety_coefficient = 0.4); the latter in percent.
safety == 1000

safety_coefficient == 40

\* A failed JSON request: _get_request returns None.
NoneObj == [tag |-> "None"]

----------------------------------------------------------------------------
(* Python built-ins as the source uses them                                *)

\* min(a, b): b only when b < a; every comparison with NaN is False.
PyMin(a, b) == IF a # NaN /\ b # NaN /\ b < a THEN b ELSE a

\* max(a, b): b only when b > a.
PyMax(a, b) == IF a # NaN /\ b # NaN /\ b > a THEN b ELSE a

PyAbs(x) == IF x = NaN THEN NaN ELSE IF x < 0 THEN -x ELSE x

\* a < b on floats.
PyLess(a, b) == a # NaN /\ b # NaN /\ a < b

Pow10(n) == IF n <= 0 THEN 1 ELSE IF n = 1 THEN 10 ELSE IF n = 2 THEN 100 ELSE 1000

\* Nearest multiple of unit, ties to the even multiple (x >= 0).
RoundHalfEven(x, unit) ==
    LET q == x \div unit
        r == x % unit
    IN  IF 2 * r < unit THEN q * unit
        ELSE IF 2 * r > unit THEN (q + 1) * unit
        ELSE IF q % 2 = 0 THEN q * unit ELSE (q + 1) * unit

\* round(x, ndigits) of a value kept with `digits` decimal digits;
\* ndigits = None rounds to an integer.
round(x, ndigits, digits) ==
    IF x = NaN THEN NaN
    ELSE IF ndigits = None THEN RoundHalfEven(x, Pow10(digits))
    ELSE IF ndigits >= digits THEN x
    ELSE RoundHalfEven(x, Pow10(digits - ndigits))

----------------------------------------------------------------------------
(* The environment: what the gateway and the market-data provider return   *)

\* Coins with an odd index are held: 1.00 free and 1.00 locked in a pending
\* limit sell; the others are not held.
Holding(c) == IF c % 2 = 1 THEN [Free |-> 100, Lock |-> 100] ELSE [Free |-> 0, Lock |-> 0]

Wallet(usd) == [tag |-> "dict", USD |-> [Free |-> usd, Lock |-> 0], coins |-> [c \in Coins |-> Holding(c)]]

\* exchangeInfo: every pair listed, amounts to 1 digit, prices to 2.
TradePairs == [c \in Coins |-> [Coin |-> c, AmountPrecision |-> 1, PricePrecision |-> 2]]

GoodInfo == [tag |-> "dict", TradePairs |-> TradePairs]

\* A response whose "TradePairs" is not a mapping: .values() raises.
BadInfo == [tag |-> "malformed"]

\* (get_balance(), get_exchange_info()) as fetched at the top of a cycle.
Snapshots ==
    { [balance |-> NoneObj,      exchange_info |-> NoneObj],
      [balance |-> Wallet(1000), exchange_info |-> GoodInfo],
      [balance |-> Wallet(3000), exchange_info |-> GoodInfo],
      [balance |-> Wallet(3000), exchange_info |-> NoneObj],
      [balance |-> Wallet(3000), exchange_info |-> BadInfo] }

\* The last row of the enriched series, by name.
Row(sma, lma, sd, vr, a) ==
    [close |-> 10, short_MA |-> sma, long_MA |-> lma, stdV |-> sd,
     std_volavolatility_ratio |-> vr, atr |-> a]

Series ==
    [ up8   |-> Row(10400,  9600, 400,  40, 111),   \* raw coefficient 8.00
      up3   |-> Row(10150,  9850,  57, 200, 100),   \* coefficient 3.00
      mid   |-> Row(10055, 10000, 114, 200, 100),   \* coefficient 0.55
      down  |-> Row( 9900, 10100, 114, 200, 100),   \* coefficient -2.00
      flat  |-> Row(10000, 10000,   0,   0,   0),   \* constant close
      short |-> Row(10020,   NaN, 114, NaN, NaN) ]  \* fewer samples than the windows

\* One asset evaluation's inputs: whether get_ticker answers (for the target
\* and, in get_total_asset, for the held coins), and what get_ohlcv returns.
Env(tk, dt) == [ticker |-> tk, data |-> dt]

Envs ==
    { Env(TRUE, dt) : dt \in {"fail", "up8", "up3", "mid", "down", "flat", "short"} }
    \cup { Env(FALSE, "up3") }

\* LastPrice of every pair.
LastPrice(c) == 10

----------------------------------------------------------------------------
(* Exchange metadata and gateway write calls                               *)

\* get_coin_precision: None without usable metadata or without the coin.
get_coin_precision(coin, info) ==
    IF info.tag # "dict" THEN None
    ELSE IF coin \in DOMAIN info.TradePairs THEN info.TradePairs[coin].AmountPrecision
    ELSE None

get_price_precision(coin, info) ==
    IF info.tag # "dict" THEN None
    ELSE IF coin \in DOMAIN info.TradePairs THEN info.TradePairs[coin].PricePrecision
    ELSE None

\* Both lookups raise when "TradePairs" is present but not a mapping.
PrecisionRaises(info) == info.tag = "malformed"

\* The request place_order posts: LIMIT when a price is given, else MARKET.
place_order(coin, side, quantity, price) ==
    [fn |-> "place_order", pair |-> coin, side |-> side,
     type |-> IF price # None THEN "LIMIT" ELSE "MARKET",
     quantity |-> quantity, price |-> price]

\* cancel_order(pair = ...): cancels every pending order of the pair.
cancel_order(coin) ==
    [fn |-> "cancel_order", pair |-> coin, side |-> "-", type |-> "-",
     quantity |-> 0, price |-> None]

----------------------------------------------------------------------------
(* Portfolio valuation, position sizing, signal                            *)

RECURSIVE HeldValue(_, _, _)
\* The loop of get_total_asset over the wallet's coins 1..n: a held coin adds
\* amount * LastPrice when its ticker answers and is skipped otherwise.
HeldValue(spot, tickerUp, n) ==
    IF n = 0 THEN 0
    ELSE LET total_amount == spot[n].Free + spot[n].Lock
         IN  HeldValue(spot, tickerUp, n - 1)
             + (IF total_amount > 0 /\ tickerUp
                THEN (total_amount * LastPrice(n)) \div 100 ELSE 0)

get_total_asset(balance_data, tickerUp) ==
    balance_data.USD.Free + balance_data.USD.Lock
    + HeldValue(balance_data.coins, tickerUp, NumCoins)

\* calculate_max_position(df, total_capital, risk_coefficient = 0.05), in cents:
\* total_capital * 0.05 / ((current_std / current_price) / std_volavolatility_ratio).
calculate_max_position(row, total_capital) ==
    LET current_price == row.close
        current_std == IF row.stdV = 0 THEN current_price ELSE row.stdV
        ratio == row.std_volavolatility_ratio
    IN  IF current_std = NaN \/ ratio = NaN THEN NaN
        ELSE (total_capital * 5 * ratio * current_price) \div (10 * current_std)

\* max(0.9, min(1.11, 0.02 / std_volavolatility_ratio)); a NaN or infinite
\* quotient leaves min's first argument, 1.11.
objective_volatility_ratio(ratio) ==
    PyMax(90, IF ratio = NaN \/ ratio = 0 THEN 111 ELSE PyMin(111, 20000 \div ratio))

calculate_coefficient(row) ==
    IF row.atr = NaN \/ row.atr = 0 THEN 0
    ELSE LET ma_diff == row.short_MA - row.long_MA
         IN  (objective_volatility_ratio(row.std_volavolatility_ratio) * ma_diff) \div row.atr

----------------------------------------------------------------------------
(* Trading_Bot.strategy                                                    *)

\* The except branch: the neutral decision.
NeutralDecision(target) ==
    [target |-> target, action |-> "NULL", amount |-> 0, coefficient |-> 0,
     Max_position |-> 0]

\* abs(max_position * coefficient) / price, in 1/100 coin.
SizedAmount(max_position, coefficient, price) ==
    IF max_position = NaN THEN NaN
    ELSE PyAbs(max_position * coefficient) \div (100 * price)

\* if coefficient > threshold + 0.1
BuySignal(coefficient, threshold) == coefficient * 100 > threshold + 1000

\* if coefficient < threshold
SellSignal(coefficient, threshold) == coefficient * 100 < threshold

\* min(current_USD * safety_coefficient / price, abs(max_position * coefficient) / price)
BuyAmount(current_USD, max_position, coefficient, price) ==
    PyMin((current_USD * safety_coefficient) \div price,
          SizedAmount(max_position, coefficient, price))

\* Faulty variant of ZeroAmountRule: the override left out.
ZeroAmountRuleOff(action, amount) == action

\* if decision['amount'] == 0: action NULL.
ZeroAmountRule(action, amount) == IF amount = 0 THEN "NULL" ELSE action

\* An exception inside the try block: no ticker (price is never bound), no
\* usable series, or no balance snapshot.
StrategyRaises(balance, env) ==
    ~env.ticker \/ env.data = "fail" \/ balance.tag = "None"

\* The decision is built with action NULL and the sized amount; the recorded
\* coefficient is capped at 5; the BUY rule, then the SELL rule, then the
\* zero-amount override rewrite action and amount, all three on the
\* uncapped local coefficient.
strategy(target, balance, threshold, env) ==
    IF StrategyRaises(balance, env) THEN NeutralDecision(target)
    ELSE LET price == LastPrice(target)
             row == Series[env.data]
             max_position == calculate_max_position(row, get_total_asset(balance, env.ticker))
             coefficient == calculate_coefficient(row)
             current_USD == balance.USD.Free
             held == balance.coins[target].Free + balance.coins[target].Lock
             buy == BuySignal(coefficient, threshold)
             sell == SellSignal(coefficient, threshold)
             amount == IF sell THEN held
                       ELSE IF buy THEN BuyAmount(current_USD, max_position, coefficient, price)
                       ELSE SizedAmount(max_position, coefficient, price)
             action == IF sell THEN "SELL" ELSE IF buy THEN "BUY" ELSE "NULL"
         IN  [target |-> target,
              action |-> ZeroAmountRule(action, amount),
              amount |-> amount,
              coefficient |-> PyMin(500, coefficient),
              Max_position |-> max_position,
              balance |-> held,
              price |-> price,
              balance_USD |-> held * price,
              sell_price |-> IF row.stdV = NaN THEN NaN ELSE price * 1000 + 3 * row.stdV,
              spending |-> IF amount = NaN THEN NaN ELSE amount * price]

\* decision['coin'] = coin
WithCoin(decision, coin) ==
    [f \in DOMAIN decision \cup {"coin"} |-> IF f = "coin" THEN coin ELSE decision[f]]

----------------------------------------------------------------------------
(* Sorting as list.sort(key = ...) does: stable, ascending by key          *)

\* Tuple comparison of two keys of equal length.
KeyLess(a, b) ==
    \E n \in 1..Len(a) : a[n] < b[n] /\ \A m \in 1..(n - 1) : a[m] = b[m]

\* Where element k lands: after every element with a smaller key and after
\* the earlier elements with an equal key.
SortedPosition(keys, k) ==
    Cardinality({j \in 1..Len(keys) : KeyLess(keys[j], keys[k])})
    + Cardinality({j \in 1..(k - 1) : keys[j] = keys[k]}) + 1

SortByKey(list, keys) ==
    [p \in 1..Len(list) |-> list[CHOOSE k \in 1..Len(list) : SortedPosition(keys, k) = p]]

\* key = lambda x: -(x.get('coefficient'))
CoefficientKey(d) == << -d.coefficient >>

\* Faulty variant of ExecutionKey: the BUY and SELL classes swapped.
ExecutionKeyBuyFirst(d) ==
    << IF d.action = "NULL" THEN 1 ELSE 0,
       IF d.action = "SELL" THEN 1 ELSE 0,
       -PyAbs(d.coefficient) >>

\* key = lambda x: (action == "NULL", action == 'BUY', -abs(coefficient))
ExecutionKey(d) ==
    << IF d.action = "NULL" THEN 1 ELSE 0,
       IF d.action = "BUY" THEN 1 ELSE 0,
       -PyAbs(d.coefficient) >>

SortByCoefficient(list) == SortByKey(list, [k \in 1..Len(list) |-> CoefficientKey(list[k])])

SortForExecution(list) == SortByKey(list, [k \in 1..Len(list) |-> ExecutionKey(list[k])])

\* Faulty variant of NextSellpoint: the second-highest coefficient.
NextSellpointSecond(sorted) == PyMax(5000, sorted[2].coefficient * 95)

\* sellpoint = max(0.5, decision_list[2].get('coefficient', 0) * 0.95) on the
\* list sorted by descending coefficient.
NextSellpoint(sorted) == PyMax(5000, sorted[3].coefficient * 95)

\* Faulty variant of BuyGate: free cash at the safety floor passes.
BuyGateAtFloor(d, balance) ==
    /\ d.action = "BUY"
    /\ (IF balance.tag = "None" THEN 0 ELSE balance.USD.Free) >= safety
    /\ PyLess(d.balance_USD, d.Max_position)

\* The BUY branch's condition.
BuyGate(d, balance) ==
    /\ d.action = "BUY"
    /\ (IF balance.tag = "None" THEN 0 ELSE balance.USD.Free) > safety
    /\ PyLess(d.balance_USD, d.Max_position)

----------------------------------------------------------------------------
(* Trading_Bot.run under the supervisor of __main__                        *)

VARIABLES
    pc,             \* "top", "eval", "rank", "exec", "sleep" or "crashed"
    first_cycle,    \* no cycle of this run has completed
    sellpoint,      \* the threshold carried across cycles
    balance,        \* the cycle's balance snapshot
    exchange_info,  \* the cycle's exchange metadata
    decision_list,
    idx,            \* position of the running for loop
    calls,          \* the gateway write calls of this cycle, in order
    resp,           \* whether the last market BUY call returned a response
    env_log,        \* env_log[c]: the inputs asset c was evaluated on
    passed,         \* the thresholds passed to strategy in this cycle
    rank3           \* third-highest coefficient of the last ranked cycle

vars == << pc, first_cycle, sellpoint, balance, exchange_info, decision_list,
           idx, calls, resp, env_log, passed, rank3 >>

\* The value v with at most two coefficients above it and at least three
\* at or above it.
ThirdHighest(list) ==
    CHOOSE v \in {list[k].coefficient : k \in 1..Len(list)} :
        /\ Cardinality({k \in 1..Len(list) : list[k].coefficient > v}) <= 2
        /\ Cardinality({k \in 1..Len(list) : list[k].coefficient >= v}) >= 3

\* bot.run() entered: sellpoint = 0, before the first fetch.
RunEntry ==
    /\ pc = "top"
    /\ first_cycle = TRUE
    /\ sellpoint = 0
    /\ balance = NoneObj
    /\ exchange_info = NoneObj
    /\ decision_list = << >>
    /\ idx = 1
    /\ calls = << >>
    /\ resp = TRUE
    /\ env_log = << >>
    /\ passed = << >>
    /\ rank3 = 0

Init == RunEntry

\* Top of the while loop: balance and exchange metadata are fetched once.
FetchSnapshot(S) ==
    /\ pc = "top"
    /\ \E snap \in S :
        /\ balance' = snap.balance
        /\ exchange_info' = snap.exchange_info
    /\ decision_list' = << >>
    /\ idx' = 1
    /\ calls' = << >>
    /\ resp' = TRUE
    /\ env_log' = << >>
    /\ passed' = << >>
    /\ pc' = "eval"
    /\ UNCHANGED << first_cycle, sellpoint, rank3 >>

\* One iteration of `for coin in coin_list`.
Evaluate(E) ==
    /\ pc = "eval"
    /\ \E env \in E :
        \E decision \in {strategy(idx, balance, sellpoint, env)} :
            /\ decision_list' = Append(decision_list, WithCoin(decision, idx))
            /\ env_log' = Append(env_log, env)
    /\ passed' = Append(passed, sellpoint)
    /\ idx' = IF idx = NumCoins THEN 1 ELSE idx + 1
    /\ pc' = IF idx = NumCoins THEN "rank" ELSE "eval"
    /\ UNCHANGED << first_cycle, sellpoint, balance, exchange_info, calls, resp, rank3 >>

\* The two sorts and the threshold update between them.
Rank ==
    /\ pc = "rank"
    /\ \E sorted \in {SortByCoefficient(decision_list)} :
        /\ sellpoint' = NextSellpoint(sorted)
        /\ decision_list' = SortForExecution(sorted)
    /\ rank3' = ThirdHighest(decision_list)
    /\ idx' = 1
    /\ pc' = "exec"
    /\ UNCHANGED << first_cycle, balance, exchange_info, calls, resp, env_log, passed >>

ExecNext == IF idx = Len(decision_list) THEN "sleep" ELSE "exec"

\* Faulty variant of ExecuteBuy: the limit sell placed only when the buy returned a
\* response.
ExecuteBuySellOnSuccess ==
    /\ pc = "exec"
    /\ BuyGate(decision_list[idx], balance)
    /\ ~PrecisionRaises(exchange_info)
    /\ resp' \in BOOLEAN
    /\ LET decision == decision_list[idx]
           coin == decision.target
           amount == round(decision.amount, get_coin_precision(coin, exchange_info), 2)
           limit == round(decision.sell_price, get_price_precision(coin, exchange_info), 3)
       IN  calls' = IF resp'
                    THEN calls \o << place_order(coin, "BUY", amount, None),
                                     place_order(coin, "SELL", amount, limit) >>
                    ELSE Append(calls, place_order(coin, "BUY", amount, None))
    /\ idx' = idx + 1
    /\ pc' = ExecNext
    /\ UNCHANGED << first_cycle, sellpoint, balance, exchange_info, decision_list,
                    env_log, passed, rank3 >>

\* BUY branch: the market buy, then the paired limit sell, whatever the
\* buy returned.
ExecuteBuy ==
    /\ pc = "exec"
    /\ BuyGate(decision_list[idx], balance)
    /\ ~PrecisionRaises(exchange_info)
    /\ LET decision == decision_list[idx]
           coin == decision.target
           amount == round(decision.amount, get_coin_precision(coin, exchange_info), 2)
           limit == round(decision.sell_price, get_price_precision(coin, exchange_info), 3)
       IN  calls' = calls \o << place_order(coin, "BUY", amount, None),
                                place_order(coin, "SELL", amount, limit) >>
    /\ resp' \in BOOLEAN
    /\ idx' = idx + 1
    /\ pc' = ExecNext
    /\ UNCHANGED << first_cycle, sellpoint, balance, exchange_info, decision_list,
                    env_log, passed, rank3 >>

\* SELL branch: cancel the pair's pending orders, then the market sell.
ExecuteSell ==
    /\ pc = "exec"
    /\ ~BuyGate(decision_list[idx], balance)
    /\ decision_list[idx].action = "SELL"
    /\ ~PrecisionRaises(exchange_info)
    /\ LET decision == decision_list[idx]
           coin == decision.target
           amount == round(decision.amount, get_coin_precision(coin, exchange_info), 2)
       IN  calls' = calls \o << cancel_order(coin), place_order(coin, "SELL", amount, None) >>
    /\ idx' = idx + 1
    /\ pc' = ExecNext
    /\ UNCHANGED << first_cycle, sellpoint, balance, exchange_info, decision_list,
                    resp, env_log, passed, rank3 >>

\* Neither branch: a NULL decision, or a BUY that fails the gate.
ExecuteSkip ==
    /\ pc = "exec"
    /\ ~BuyGate(decision_list[idx], balance)
    /\ decision_list[idx].action # "SELL"
    /\ idx' = idx + 1
    /\ pc' = ExecNext
    /\ UNCHANGED << first_cycle, sellpoint, balance, exchange_info, decision_list,
                    calls, resp, env_log, passed, rank3 >>

\* The precision lookup raises: in the BUY branch before any order, in the
\* SELL branch after the cancel.  The exception leaves run().
ExecuteRaise ==
    /\ pc = "exec"
    /\ PrecisionRaises(exchange_info)
    /\ \/ /\ BuyGate(decision_list[idx], balance)
          /\ calls' = calls
       \/ /\ ~BuyGate(decision_list[idx], balance)
          /\ decision_list[idx].action = "SELL"
          /\ calls' = Append(calls, cancel_order(decision_list[idx].target))
    /\ pc' = "crashed"
    /\ UNCHANGED << first_cycle, sellpoint, balance, exchange_info, decision_list,
                    idx, resp, env_log, passed, rank3 >>

\* time.sleep(20), then the next cycle.
EndCycle ==
    /\ pc = "sleep"
    /\ pc' = "top"
    /\ first_cycle' = FALSE
    /\ UNCHANGED << sellpoint, balance, exchange_info, decision_list, idx, calls,
                    resp, env_log, passed, rank3 >>

\* Faulty variant of SupervisorRestart: the exception ends the process.
SupervisorGivesUp ==
    /\ pc = "crashed"
    /\ pc' = "exited"
    /\ UNCHANGED << first_cycle, sellpoint, balance, exchange_info, decision_list,
                    idx, calls, resp, env_log, passed, rank3 >>

\* __main__: except Exception, sleep(10), bot.run() again.
SupervisorRestart ==
    /\ pc = "crashed"
    /\ pc' = "top"
    /\ first_cycle' = TRUE
    /\ sellpoint' = 0
    /\ balance' = NoneObj
    /\ exchange_info' = NoneObj
    /\ decision_list' = << >>
    /\ idx' = 1
    /\ calls' = << >>
    /\ resp' = TRUE
    /\ env_log' = << >>
    /\ passed' = << >>
    /\ rank3' = 0

Next ==
    \/ FetchSnapshot(Snapshots)
    \/ Evaluate(Envs)
    \/ Rank
    \/ ExecuteBuy
    \/ ExecuteSell
    \/ ExecuteSkip
    \/ ExecuteRaise
    \/ EndCycle
    \/ SupervisorRestart

Spec == Init /\ [][Next]_vars

\* For the progress properties: the same program on inputs that still select
\* every branch of the loop (buy, gated buy, sell, skip, raise).
LiveSnapshots ==
    { [balance |-> Wallet(3000), exchange_info |-> GoodInfo],
      [balance |-> Wallet(3000), exchange_info |-> BadInfo] }

LiveEnvs == { Env(TRUE, dt) : dt \in {"fail", "up8", "up3", "down", "flat"} }

NextLive ==
    \/ FetchSnapshot(LiveSnapshots)
    \/ Evaluate(LiveEnvs)
    \/ Rank
    \/ ExecuteBuy
    \/ ExecuteSell
    \/ ExecuteSkip
    \/ ExecuteRaise
    \/ EndCycle
    \/ SupervisorRestart

\* The process is single-threaded and every wait is a finite sleep or a
\* synchronous request: whenever a step is possible, one is taken.
LiveSpec == Init /\ [][NextLive]_vars /\ WF_vars(NextLive)

----------------------------------------------------------------------------
(* Vocabulary of the properties                                            *)

Positions == 1..Len(decision_list)

\* The two sorts of the cycle are done.
Ranked == pc \in {"exec", "sleep", "crashed"}

IsMarketBuy(c) == c.fn = "place_order" /\ c.side = "BUY" /\ c.type = "MARKET"

IsMarketSell(c) == c.fn = "place_order" /\ c.side = "SELL" /\ c.type = "MARKET"

IsLimitSell(c) == c.fn = "place_order" /\ c.side = "SELL" /\ c.type = "LIMIT"

IsCancel(c) == c.fn = "cancel_order"

CallsFor(coin) == {k \in 1..Len(calls) : calls[k].pair = coin}

PositionOf(coin) == CHOOSE p \in Positions : decision_list[p].coin = coin

ClassRank(d) == IF d.action = "SELL" THEN 0 ELSE IF d.action = "BUY" THEN 1 ELSE 2

Magnitude(x) == IF x < 0 THEN -x ELSE x

----------------------------------------------------------------------------
\* C1: in the execution order every SELL decision precedes every BUY and
\* every NULL comes last, each class in non-increasing |coefficient|; the
\* gateway calls follow that order; a market sell comes right after the
\* cancel of its pair; no cancel or market sell comes after a BUY order of
\* the cycle; a NULL decision causes no gateway write call.
C1_SellsBeforeBuys ==
    /\ Ranked =>
         \A a, b \in Positions : a < b =>
            /\ ClassRank(decision_list[a]) <= ClassRank(decision_list[b])
            /\ ClassRank(decision_list[a]) = ClassRank(decision_list[b])
                 => Magnitude(decision_list[a].coefficient)
                      >= Magnitude(decision_list[b].coefficient)
    /\ \A k \in 1..Len(calls) :
         /\ IsMarketSell(calls[k]) =>
               k > 1 /\ IsCancel(calls[k - 1]) /\ calls[k - 1].pair = calls[k].pair
         /\ IsCancel(calls[k]) =>
               /\ decision_list[PositionOf(calls[k].pair)].action = "SELL"
               /\ \/ k < Len(calls) /\ IsMarketSell(calls[k + 1])
                                    /\ calls[k + 1].pair = calls[k].pair
                  \/ k = Len(calls) /\ pc = "crashed"
         /\ decision_list[PositionOf(calls[k].pair)].action # "NULL"
         /\ \A j \in 1..(k - 1) :
               /\ PositionOf(calls[j].pair) <= PositionOf(calls[k].pair)
               /\ calls[j].side = "BUY" => ~IsCancel(calls[k]) /\ ~IsMarketSell(calls[k])

\* A cycle that sold one asset and then bought another, with a NULL left over.
C1_Witness ==
    /\ pc = "sleep"
    /\ Len(calls) = 4
    /\ IsCancel(calls[1]) /\ IsMarketSell(calls[2])
    /\ IsMarketBuy(calls[3]) /\ IsLimitSell(calls[4])
    /\ decision_list[3].action = "NULL"

----------------------------------------------------------------------------
\* C4: every evaluation of a cycle is passed the same threshold: the seed 0
\* in the first cycle of a run, else max(0.5, 0.95 * c3) for the third-highest
\* coefficient c3 of the previous cycle; the threshold is replaced once, after
\* the last evaluation and before the first order of the cycle.
C4_ThresholdRecurrence ==
    /\ pc \in {"eval", "rank"} =>
         /\ calls = << >>
         /\ sellpoint = (IF first_cycle THEN 0
                         ELSE IF 95 * rank3 > 5000 THEN 95 * rank3 ELSE 5000)
         /\ \A k \in 1..Len(passed) : passed[k] = sellpoint
    /\ Ranked \/ (pc = "top" /\ ~first_cycle) =>
         /\ sellpoint = (IF 95 * rank3 > 5000 THEN 95 * rank3 ELSE 5000)
         /\ Len(passed) = NumCoins
         /\ \A j, k \in 1..Len(passed) : passed[j] = passed[k]
    /\ pc = "top" /\ first_cycle => sellpoint = 0

\* A second cycle being evaluated on a threshold above the floor.
C4_Witness ==
    /\ pc = "eval"
    /\ ~first_cycle
    /\ Len(passed) = 2
    /\ sellpoint = 28500
    /\ rank3 = 300

----------------------------------------------------------------------------
\* C6: a market BUY is issued only for a BUY decision, with free cash of the
\* cycle's snapshot strictly above the safety floor and exposure strictly
\* below Max_position; a BUY decision that fails a condition causes no
\* gateway call at all and no exception.
C6_BuyOnlyThroughGate ==
    /\ \A k \in 1..Len(calls) : IsMarketBuy(calls[k]) =>
         LET d == decision_list[PositionOf(calls[k].pair)]
         IN  /\ d.action = "BUY"
             /\ balance.tag = "dict"
             /\ balance.USD.Free > safety
             /\ d.balance_USD < d.Max_position
    /\ \A p \in Positions :
         LET d == decision_list[p]
         IN  (Ranked \/ pc = "top") /\ d.action = "BUY"
             /\ (balance.USD.Free <= safety \/ d.balance_USD >= d.Max_position)
             => /\ CallsFor(d.coin) = {}
                /\ ~(pc = "crashed" /\ idx = p)

\* One BUY decision was skipped at the gate and another one was executed.
C6_Witness ==
    /\ pc = "sleep"
    /\ \E p, q \in Positions :
         /\ decision_list[p].action = "BUY"
         /\ decision_list[p].balance_USD >= decision_list[p].Max_position
         /\ CallsFor(decision_list[p].coin) = {}
         /\ decision_list[q].action = "BUY"
         /\ \E k \in CallsFor(decision_list[q].coin) : IsMarketBuy(calls[k])

----------------------------------------------------------------------------
\* C7: every market BUY is followed, as the very next gateway call, by one
\* limit SELL of the same pair and the same rounded quantity, priced at
\* price + 3 * stdV rounded to the pair's price precision, whether or not the
\* BUY call returned a response; a limit SELL only ever follows such a BUY.
C7_BuyPairedWithLimitSell ==
    \A k \in 1..Len(calls) :
        /\ calls[k].fn = "place_order" /\ calls[k].side = "BUY" =>
             LET coin == calls[k].pair
                 d == decision_list[PositionOf(coin)]
                 stdV == Series[env_log[coin].data].stdV
             IN  /\ calls[k].type = "MARKET"
                 /\ calls[k].quantity
                      = round(d.amount, get_coin_precision(coin, exchange_info), 2)
                 /\ k < Len(calls)
                 /\ IsLimitSell(calls[k + 1])
                 /\ calls[k + 1].pair = coin
                 /\ calls[k + 1].quantity = calls[k].quantity
                 /\ calls[k + 1].price
                      = round(LastPrice(coin) * 1000 + 3 * stdV,
                              get_price_precision(coin, exchange_info), 3)
                 /\ Cardinality({j \in CallsFor(coin) : IsLimitSell(calls[j])}) = 1
        /\ calls[k].type = "LIMIT" =>
             /\ calls[k].side = "SELL"
             /\ k > 1
             /\ IsMarketBuy(calls[k - 1])
             /\ calls[k - 1].pair = calls[k].pair

\* The last BUY call returned nothing and its limit SELL was placed all the
\* same, at a price that rounding changed.
C7_Witness ==
    /\ Len(calls) >= 2
    /\ ~resp
    /\ IsMarketBuy(calls[Len(calls) - 1])
    /\ IsLimitSell(calls[Len(calls)])
    /\ calls[Len(calls)].price = 10340

----------------------------------------------------------------------------
\* C9: an exception that leaves a cycle is followed by a restart of run():
\* the threshold back at its default, the first cycle again, balance and
\* metadata fetched anew; and every cycle that ends is followed by the
\* evaluation of the next one.  The process never stops by itself.
C9_SupervisorRestarts ==
    /\ [][pc = "crashed" => pc' = "top" /\ sellpoint' = 0 /\ first_cycle'
                            /\ decision_list' = << >>]_vars
    /\ (pc = "crashed") ~> (pc = "eval" /\ first_cycle /\ sellpoint = 0 /\ idx = 1
                            /\ decision_list = << >>)
    /\ (pc = "sleep") ~> (pc = "eval" /\ ~first_cycle /\ idx = 1
                          /\ decision_list = << >>)
    /\ []<>(pc = "eval" /\ idx = 1)

\* An exception left run() in a later cycle, after a gateway call.
C9_Witness ==
    /\ pc = "crashed"
    /\ ~first_cycle
    /\ calls # << >>

----------------------------------------------------------------------------
\* Which evaluations the claims speak of

\* The threshold asset `coin` was evaluated on.
ThresholdOf(coin) == passed[coin]

\* threshold <= coefficient <= threshold + 0.1
InDeadBand(d) ==
    /\ ThresholdOf(d.coin) <= 100 * d.coefficient
    /\ 100 * d.coefficient <= ThresholdOf(d.coin) + 1000

\* No ticker, no series, or no balance snapshot.
EvaluationFailed(coin) ==
    \/ ~env_log[coin].ticker
    \/ env_log[coin].data = "fail"
    \/ balance.tag = "None"

\* The series came back with too few samples for the indicator windows.
ShortSeries(coin) == env_log[coin].ticker /\ env_log[coin].data = "short"

\* The latest ATR of an evaluated series is 0 or undefined.
NoAtr(coin) ==
    /\ ~EvaluationFailed(coin)
    /\ Series[env_log[coin].data].atr \in {0, NaN}

IsNeutral(d) ==
    d.action = "NULL" /\ d.amount = 0 /\ d.coefficient = 0 /\ d.Max_position = 0

----------------------------------------------------------------------------
----------------------------------------------------------------------------
\* C3 as stated: a latest ATR of 0 or undefined gives coefficient 0 and
\* action NULL, whatever the threshold and the held balance.
C3_NoAtrIsNull ==
    \A p \in Positions :
        NoAtr(decision_list[p].coin) =>
            decision_list[p].coefficient = 0 /\ decision_list[p].action = "NULL"

----------------------------------------------------------------------------
\* C5 as stated: a failed evaluation (no ticker, no or short market data, no
\* balance snapshot) gives the neutral decision for that asset, the cycle
\* still holds one decision per asset, and the neutral decision causes no
\* gateway call and no exception.
C5_FailureIsNeutral ==
    /\ Ranked => Len(decision_list) = NumCoins
    /\ \A p \in Positions :
         LET d == decision_list[p]
         IN  EvaluationFailed(d.coin) \/ ShortSeries(d.coin) =>
                /\ IsNeutral(d)
                /\ CallsFor(d.coin) = {}
                /\ ~(pc = "crashed" /\ Ranked /\ idx = p)

----------------------------------------------------------------------------
\* C8 as stated: the recorded coefficient is at most 5 and a BUY's amount is
\* min(cash * 0.4 / price, |Max_position * coefficient| / price) with that
\* recorded coefficient, so its notional exceeds neither 5 * |Max_position|
\* nor 0.4 * free cash.
C8_BuySizedByCappedCoefficient ==
    \A p \in Positions :
        LET d == decision_list[p]
            byCash == (balance.USD.Free * 40) \div d.price
            byCap == Magnitude(d.Max_position * d.coefficient) \div (100 * d.price)
        IN  /\ d.coefficient <= 500
            /\ d.action = "BUY" /\ d.Max_position # NaN =>
                 /\ d.amount = (IF byCap < byCash THEN byCap ELSE byCash)
                 /\ d.amount * d.price <= 5 * Magnitude(d.Max_position)
                 /\ d.amount * d.price <= 40 * balance.USD.Free

----------------------------------------------------------------------------
RECURSIVE BuyNotional(_)
\* Sum of quantity * price over the market BUY orders among the first n calls,
\* in cents.
BuyNotional(n) ==
    IF n = 0 THEN 0
    ELSE BuyNotional(n - 1)
         + (IF IsMarketBuy(calls[n])
            THEN calls[n].quantity * decision_list[PositionOf(calls[n].pair)].price
            ELSE 0)

\* C10 as stated: the market BUY orders of one cycle together cost no more
\* than the free cash of the cycle's balance snapshot.
C10_CycleBuysWithinCash ==
    \A n \in 1..Len(calls) :
        IsMarketBuy(calls[n]) => BuyNotional(n) <= 100 * balance.USD.Free

====
